---- MODULE Spec2Model ----
(***************************************************************************)
(* Model of main.py of Home-Alone: the command-line run (main), the        *)
(* generation pipeline (generate_home_alone_poster_openai), the image       *)
(* helpers (load_and_optionally_resize, save_base64_image) and the prompt   *)
(* builder.  The remote image service, the file system and the image codec  *)
(* are the environment: their outcomes are chosen in Init (files, command   *)
(* line) or by \E (the service's answer).                                   *)
(***************************************************************************)
EXTENDS Integers, Sequences, FiniteSets, TLC

VARIABLES
    pc,            \* position of the run in main / generate / save_base64_image
    err,           \* class of the exception that ended the run, or None
    args,          \* parsed command line (argparse namespace)
    env_api_key,   \* TRUE when OPENAI_API_KEY is set and non-empty
    fs,            \* the files at args.input and args.sweater
    prompt,        \* prompt built by build_home_alone_prompt
    files,         \* the list of buffers handed to images.edit
    requests,      \* the requests sent to the remote service, in order
    response,      \* what the remote service answered, or None
    img,           \* TRUE once the payload was decoded and opened as an image
    dirMade,       \* TRUE once os.makedirs ran for the output directory
    outputWritten, \* TRUE once img.save wrote args.output
    printed,       \* messages printed on stdout, in order
    log,           \* stages completed so far, in order (history)
    w, h, max_side,\* inputs of the stand-alone load_and_optionally_resize check
    passed,        \* the size handed to img.resize there, <<>> if none was
    out            \* the size of the image it returns, <<>> if none yet

vars == <<pc, err, args, env_api_key, fs, prompt, files, requests,
          response, img, dirMade, outputWritten, printed, log,
          w, h, max_side, passed, out>>

pipeVars == <<pc, err, args, env_api_key, fs, prompt, files, requests,
              response, img, dirMade, outputWritten, printed, log>>

resizeVars == <<w, h, max_side, passed, out>>

None == "None"

----------------------------------------------------------------------------
(* Bounds of the model                                                      *)

\* largest width / height drawn for the stand-alone resize check
MaxDim == 9
\* largest max_side drawn for the stand-alone resize check
MaxSideArg == 6

----------------------------------------------------------------------------
(* Program constants                                                        *)

DEFAULT_ENGINE == "gpt-image-1"
POSTER_SIZE == "1024x1536"
\* default of the max_side parameter of load_and_optionally_resize
DefaultMaxSide == 1536
\* significand width of a Python float (IEEE-754 binary64), minus the hidden bit
MantissaBits == 52

\* argparse choices of --engine
EngineChoices == {"gpt-image-1", "dall-e-3"}

----------------------------------------------------------------------------
(* Environment: the values the command line and the files can take          *)

\* what can be typed after --engine; the last one is rejected by argparse
EngineInputs == EngineChoices \cup {"midjourney"}

\* sizes of the images that may sit at args.input / args.sweater
ImageSizes == {<<1024, 1024>>, <<1536, 640>>, <<2000, 3000>>, <<4000, 1>>}

MissingFile == [kind |-> "missing", size |-> <<0, 0>>]
NotAnImage == [kind |-> "not_image", size |-> <<0, 0>>]
ImageFile(s) == [kind |-> "image", size |-> s]

UserFiles == {MissingFile, NotAnImage} \cup {ImageFile(s) : s \in ImageSizes}
SweaterFiles == {MissingFile, NotAnImage, ImageFile(<<1024, 1024>>), ImageFile(<<4000, 1>>)}

\* --output values: the default output/home_alone_poster.png, a bare file
\* name (no directory part), a name whose extension the codec does not know
OutputPaths == {[dir |-> "output", ext |-> "png"], [dir |-> "", ext |-> "png"],
                [dir |-> "output", ext |-> "xyz"]}

\* --user-name values
UserNames == {None, "", "Kevin"}

\* --sweater values
SweaterPaths == {None, "", "sweater.png"}

\* answers of the remote service: an exception, a result with an empty data
\* list, a result whose b64_json is an image / is not an image, a result
\* that carries only a url (b64_json is None or empty)
Responses == {"api_error", "no_data", "b64_image", "b64_corrupt", "url_only"}

----------------------------------------------------------------------------
(* Pure helpers                                                             *)

Max(a, b) == IF a >= b THEN a ELSE b

RECURSIVE Pow2(_)
Pow2(n) == IF n = 0 THEN 1 ELSE 2 * Pow2(n - 1)

\* (a * 2^n) mod m, by repeated doubling
RECURSIVE ShiftMod(_, _, _)
ShiftMod(a, n, m) == IF n = 0 THEN a % m ELSE ShiftMod((2 * a) % m, n - 1, m)

\* smallest k >= 1 with a * 2^k >= m (binary exponent of the quotient a / m < 1)
RECURSIVE QuotExp(_, _, _)
QuotExp(a, m, k) == IF a * Pow2(k) >= m THEN k ELSE QuotExp(a, m, k + 1)

\* floor(log2(n)) for n >= 1
RECURSIVE Log2(_)
Log2(n) == IF n < 2 THEN 0 ELSE 1 + Log2(n \div 2)

\* Signed rounding error of the float quotient ms / m (1 <= ms < m), in units
\* of 1 / (m * 2^(MantissaBits + k)): float(ms / m) = ms/m + QuotErr / (m * 2^(52+k)).
\* r is the remainder left after the 53 significand bits; the quotient is
\* rounded to nearest (a tie needs a 54-bit dyadic quotient, impossible here).
QuotErr(ms, m) ==
    LET k == QuotExp(ms, m, 1)
        r == ShiftMod(ms, MantissaBits + k, m)
    IN  IF 2 * r > m THEN m - r ELSE 0 - r

\* int(x * scale) with scale = max_side / m computed in floats (ms < m, x <= m):
\* the exact floor of x * ms / m, except that when x * ms / m is a whole
\* number N and the float quotient was rounded down far enough, the float
\* product rounds to the float just below N and int() truncates to N - 1.
IntTimesScale(x, ms, m) ==
    LET q == (x * ms) \div m
        d == QuotErr(ms, m)
        k == QuotExp(ms, m, 1)
        j == Log2(q)
        half == IF Pow2(j) = q THEN 4 ELSE 2
    IN  IF (x * ms) % m # 0 \/ d >= 0 \/ q = 0 THEN q
        ELSE IF half * x * (0 - d) > m * Pow2(j + k) THEN q - 1 ELSE q

\* variant of ScaleBelowOne: the min(1.0, ...) is dropped, so any scale other
\* than 1.0 resizes
ScaleNotOne(size, ms) == ms # Max(size[1], size[2])

\* scale = min(1.0, max_side / max(w, h)) < 1.0
ScaleBelowOne(size, ms) == ms < Max(size[1], size[2])

\* the size handed to img.resize: (int(w * scale), int(h * scale))
ResizeArg(size, ms) ==
    LET m == Max(size[1], size[2])
    IN  <<IntTimesScale(size[1], ms, m), IntTimesScale(size[2], ms, m)>>

\* load_and_optionally_resize(path, max_side): the exception it raises, or the
\* size of the PNG buffer it returns
load_and_optionally_resize(file, ms) ==
    IF file.kind = "missing" THEN [err |-> "FileNotFoundError", size |-> <<0, 0>>]
    ELSE IF file.kind = "not_image" THEN [err |-> "UnidentifiedImageError", size |-> <<0, 0>>]
    ELSE IF ~ScaleBelowOne(file.size, ms) THEN [err |-> None, size |-> file.size]
    ELSE LET s == ResizeArg(file.size, ms)
         IN  IF s[1] < 1 \/ s[2] < 1
             THEN [err |-> "ValueError", size |-> s]   \* resize refuses an empty size
             ELSE [err |-> None, size |-> s]

\* Python truthiness of an optional string
Truthy(s) == s \notin {None, ""}

\* build_home_alone_prompt(user_name): the text depends on user_name only
\* through name_part
build_home_alone_prompt(user_name) ==
    [name_part |-> IF Truthy(user_name) THEN "<user_name>'s face"
                   ELSE "the person's face",
     name |-> IF Truthy(user_name) THEN user_name ELSE None]

\* os.path.dirname(output_path)
Dirname(path) == path.dir

\* the codec knows the extension of the path
KnownExtension(path) == path.ext = "png"

----------------------------------------------------------------------------
(* The run: main                                                            *)

NoPrompt == [name_part |-> "", name |-> None]

Init ==
    /\ pc = "parse_args"
    /\ err = None
    /\ args \in [engine : EngineInputs, input : {"me.jpg"}, sweater : SweaterPaths,
                 output : OutputPaths, user_name : UserNames,
                 show_midjourney_prompt : BOOLEAN]
    /\ env_api_key \in BOOLEAN
    /\ fs \in [input : UserFiles, sweater : SweaterFiles]
    /\ prompt = NoPrompt
    /\ files = <<>>
    /\ requests = <<>>
    /\ response = None
    /\ img = FALSE
    /\ dirMade = FALSE
    /\ outputWritten = FALSE
    /\ printed = <<>>
    /\ log = <<>>
    /\ w = 1 /\ h = 1 /\ max_side = 1 /\ passed = <<>> /\ out = <<>>

\* an uncaught exception of class e ends the run
Raise(e) ==
    /\ pc' = "error"
    /\ err' = e

\* the stage finished: record it and go on at position next
Proceed(stage, next) ==
    /\ pc' = next
    /\ log' = Append(log, stage)
    /\ err' = err

\* parser.parse_args(): --engine outside the choices exits with a usage error
ParseArgs ==
    /\ pc = "parse_args"
    /\ IF args.engine \in EngineChoices
       THEN Proceed("parse_args", "show_prompt")
       ELSE Raise("SystemExit") /\ log' = log
    /\ UNCHANGED <<args, env_api_key, fs, prompt, files, requests, response, img,
                   dirMade, outputWritten, printed, resizeVars>>

\* if args.show_midjourney_prompt: print(build_midjourney_prompt())
ShowMidjourneyPrompt ==
    /\ pc = "show_prompt"
    /\ printed' = IF args.show_midjourney_prompt
                  THEN Append(printed, "midjourney_prompt") ELSE printed
    /\ Proceed("show_prompt", "api_key")
    /\ UNCHANGED <<args, env_api_key, fs, prompt, files, requests, response, img,
                   dirMade, outputWritten, resizeVars>>

\* api_key = os.getenv(...); if not api_key: raise RuntimeError
CheckApiKey ==
    /\ pc = "api_key"
    /\ IF env_api_key
       THEN Proceed("api_key", "generate")
       ELSE Raise("RuntimeError") /\ log' = log
    /\ UNCHANGED <<args, env_api_key, fs, prompt, files, requests, response, img,
                   dirMade, outputWritten, printed, resizeVars>>

----------------------------------------------------------------------------
(* generate_home_alone_poster_openai                                        *)

\* prompt = build_home_alone_prompt(user_name), then the branch on engine
BuildPrompt ==
    /\ pc = "generate"
    /\ prompt' = build_home_alone_prompt(args.user_name)
    /\ Proceed("prompt", IF args.engine = "gpt-image-1" THEN "load_user"
                         ELSE "images_generate")
    /\ UNCHANGED <<args, env_api_key, fs, files, requests, response, img,
                   dirMade, outputWritten, printed, resizeVars>>

\* variant of LoadUser: a missing file is skipped instead of raising
LoadUserSkipsMissing ==
    /\ pc = "load_user"
    /\ LET r == load_and_optionally_resize(fs.input, DefaultMaxSide)
       IN  IF r.err # None /\ fs.input.kind # "missing"
           THEN Raise(r.err) /\ UNCHANGED <<files, log>>
           ELSE /\ files' = IF fs.input.kind = "missing" THEN <<>>
                            ELSE <<[src |-> "user", size |-> r.size]>>
                /\ Proceed("load_user", IF Truthy(args.sweater) THEN "load_sweater"
                                        ELSE "images_edit")
    /\ UNCHANGED <<args, env_api_key, fs, prompt, requests, response, img,
                   dirMade, outputWritten, printed, resizeVars>>

\* user_buf = load_and_optionally_resize(user_image_path); image_files = [user_buf]
LoadUser ==
    /\ pc = "load_user"
    /\ LET r == load_and_optionally_resize(fs.input, DefaultMaxSide)
       IN  IF r.err # None
           THEN Raise(r.err) /\ UNCHANGED <<files, log>>
           ELSE /\ files' = <<[src |-> "user", size |-> r.size]>>
                /\ Proceed("load_user", IF Truthy(args.sweater) THEN "load_sweater"
                                        ELSE "images_edit")
    /\ UNCHANGED <<args, env_api_key, fs, prompt, requests, response, img,
                   dirMade, outputWritten, printed, resizeVars>>

\* variant of LoadSweater: a reference photo that cannot be loaded is left out
\* and the run goes on
LoadSweaterOptional ==
    /\ pc = "load_sweater"
    /\ LET r == load_and_optionally_resize(fs.sweater, DefaultMaxSide)
       IN  IF r.err # None
           THEN /\ pc' = "images_edit"
                /\ UNCHANGED <<err, files, log>>
           ELSE /\ files' = Append(files, [src |-> "sweater", size |-> r.size])
                /\ Proceed("load_sweater", "images_edit")
    /\ UNCHANGED <<args, env_api_key, fs, prompt, requests, response, img,
                   dirMade, outputWritten, printed, resizeVars>>

\* if sweater_ref_path: sweater_buf = load_and_optionally_resize(sweater_ref_path)
LoadSweater ==
    /\ pc = "load_sweater"
    /\ LET r == load_and_optionally_resize(fs.sweater, DefaultMaxSide)
       IN  IF r.err # None
           THEN Raise(r.err) /\ UNCHANGED <<files, log>>
           ELSE /\ files' = Append(files, [src |-> "sweater", size |-> r.size])
                /\ Proceed("load_sweater", "images_edit")
    /\ UNCHANGED <<args, env_api_key, fs, prompt, requests, response, img,
                   dirMade, outputWritten, printed, resizeVars>>

\* variant of EditRequest: only the first buffer is sent
EditRequestUserOnly ==
    [model |-> "gpt-image-1", image |-> SubSeq(files, 1, 1), prompt |-> prompt,
     size |-> POSTER_SIZE]

\* the request of client.images.edit(model, image=files, prompt, size)
EditRequest ==
    [model |-> "gpt-image-1", image |-> files, prompt |-> prompt, size |-> POSTER_SIZE]

\* the request of client.images.generate(model, prompt, size, quality, style)
GenerateRequest ==
    [model |-> "dall-e-3", image |-> <<>>, prompt |-> prompt, size |-> "1024x1536"]

\* variant of ImagesEdit: a failed call is issued once more before giving up
ImagesEditRetry ==
    /\ pc = "images_edit"
    /\ requests' = Append(requests, EditRequest)
    /\ \E r \in Responses :
          /\ response' = r
          /\ IF r = "api_error"
             THEN IF requests = <<>>
                  THEN UNCHANGED <<pc, err, log>>
                  ELSE Raise("APIError") /\ log' = log
             ELSE Proceed("remote_call", "edit_result")
    /\ UNCHANGED <<args, env_api_key, fs, prompt, files, img,
                   dirMade, outputWritten, printed, resizeVars>>

\* result = client.images.edit(...): the service raises or answers
ImagesEdit ==
    /\ pc = "images_edit"
    /\ requests' = Append(requests, EditRequest)
    /\ \E r \in Responses :
          /\ response' = r
          /\ IF r = "api_error"
             THEN Raise("APIError") /\ log' = log
             ELSE Proceed("remote_call", "edit_result")
    /\ UNCHANGED <<args, env_api_key, fs, prompt, files, img,
                   dirMade, outputWritten, printed, resizeVars>>

\* variant of EditResult: the url fallback of the dall-e-3 branch, applied to
\* the gpt-image-1 branch as well
EditResultUrlFallback ==
    /\ pc = "edit_result"
    /\ IF response = "no_data"
       THEN Raise("IndexError") /\ UNCHANGED <<log, printed>>
       ELSE IF response \in {"b64_image", "b64_corrupt"}
       THEN Proceed("payload", "decode") /\ printed' = printed
       ELSE /\ printed' = printed \o <<"got_url", "download_manually">>
            /\ Proceed("url_fallback", "done")
    /\ UNCHANGED <<args, env_api_key, fs, prompt, files, requests, response, img,
                   dirMade, outputWritten, resizeVars>>

\* b64 = result.data[0].b64_json; save_base64_image(b64, output_path)
EditResult ==
    /\ pc = "edit_result"
    /\ IF response = "no_data"
       THEN Raise("IndexError") /\ log' = log
       ELSE Proceed("payload", "decode")
    /\ UNCHANGED <<args, env_api_key, fs, prompt, files, requests, response, img,
                   dirMade, outputWritten, printed, resizeVars>>

\* result = client.images.generate(...): the service raises or answers
ImagesGenerate ==
    /\ pc = "images_generate"
    /\ requests' = Append(requests, GenerateRequest)
    /\ \E r \in Responses :
          /\ response' = r
          /\ IF r = "api_error"
             THEN Raise("APIError") /\ log' = log
             ELSE Proceed("remote_call", "generate_result")
    /\ UNCHANGED <<args, env_api_key, fs, prompt, files, img,
                   dirMade, outputWritten, printed, resizeVars>>

\* data = result.data[0]; b64_json present and truthy: save it; otherwise print
\* the url and return
GenerateResult ==
    /\ pc = "generate_result"
    /\ IF response = "no_data"
       THEN Raise("IndexError") /\ UNCHANGED <<log, printed>>
       ELSE IF response \in {"b64_image", "b64_corrupt"}
       THEN Proceed("payload", "decode") /\ printed' = printed
       ELSE /\ printed' = printed \o <<"got_url", "download_manually">>
            /\ Proceed("url_fallback", "done")
    /\ UNCHANGED <<args, env_api_key, fs, prompt, files, requests, response, img,
                   dirMade, outputWritten, resizeVars>>

----------------------------------------------------------------------------
(* save_base64_image                                                        *)

\* image_bytes = base64.b64decode(b64_data); img = Image.open(BytesIO(image_bytes))
Decode ==
    /\ pc = "decode"
    /\ IF response = "url_only"
       THEN Raise("TypeError") /\ UNCHANGED <<img, log>>     \* b64decode(None)
       ELSE IF response = "b64_corrupt"
       THEN Raise("UnidentifiedImageError") /\ UNCHANGED <<img, log>>
       ELSE img' = TRUE /\ Proceed("decode", "makedirs")
    /\ UNCHANGED <<args, env_api_key, fs, prompt, files, requests, response,
                   dirMade, outputWritten, printed, resizeVars>>

\* os.makedirs(os.path.dirname(output_path), exist_ok=True): the empty path
\* of a bare file name is refused
MakeDirs ==
    /\ pc = "makedirs"
    /\ IF Dirname(args.output) = ""
       THEN Raise("FileNotFoundError") /\ UNCHANGED <<dirMade, log>>
       ELSE dirMade' = TRUE /\ Proceed("makedirs", "save")
    /\ UNCHANGED <<args, env_api_key, fs, prompt, files, requests, response, img,
                   outputWritten, printed, resizeVars>>

\* img.save(output_path); print("Saved generated poster to")
SaveImage ==
    /\ pc = "save"
    /\ IF ~KnownExtension(args.output)
       THEN Raise("ValueError") /\ UNCHANGED <<outputWritten, printed, log>>
       ELSE /\ outputWritten' = TRUE
            /\ printed' = Append(printed, "saved")
            /\ Proceed("save", "done")
    /\ UNCHANGED <<args, env_api_key, fs, prompt, files, requests, response, img,
                   dirMade, resizeVars>>

Next ==
    \/ ParseArgs
    \/ ShowMidjourneyPrompt
    \/ CheckApiKey
    \/ BuildPrompt
    \/ LoadUser
    \/ LoadSweater
    \/ ImagesEdit
    \/ EditResult
    \/ ImagesGenerate
    \/ GenerateResult
    \/ Decode
    \/ MakeDirs
    \/ SaveImage

Spec == Init /\ [][Next]_vars

----------------------------------------------------------------------------
(* load_and_optionally_resize on its own, over all small inputs             *)

InitResize ==
    /\ w \in 1..MaxDim
    /\ h \in 1..MaxDim
    /\ max_side \in 1..MaxSideArg
    /\ passed = <<>>
    /\ out = <<>>
    /\ pc = "resize"
    /\ err = None
    /\ args = [engine |-> DEFAULT_ENGINE, input |-> "me.jpg", sweater |-> None,
               output |-> [dir |-> "output", ext |-> "png"], user_name |-> None,
               show_midjourney_prompt |-> FALSE]
    /\ env_api_key = TRUE
    /\ fs = [input |-> ImageFile(<<1, 1>>), sweater |-> MissingFile]
    /\ prompt = NoPrompt
    /\ files = <<>>
    /\ requests = <<>>
    /\ response = None
    /\ img = FALSE
    /\ dirMade = FALSE
    /\ outputWritten = FALSE
    /\ printed = <<>>
    /\ log = <<>>

\* scale >= 1.0: the image is returned as loaded
KeepSize ==
    /\ pc = "resize"
    /\ ~ScaleBelowOne(<<w, h>>, max_side)
    /\ out' = load_and_optionally_resize(ImageFile(<<w, h>>), max_side).size
    /\ pc' = "returned"
    /\ UNCHANGED <<err, args, env_api_key, fs, prompt, files, requests, response,
                   img, dirMade, outputWritten, printed, log, w, h, max_side, passed>>

\* scale < 1.0: img.resize((int(w * scale), int(h * scale)))
Downscale ==
    /\ pc = "resize"
    /\ ScaleBelowOne(<<w, h>>, max_side)
    /\ passed' = ResizeArg(<<w, h>>, max_side)
    /\ LET r == load_and_optionally_resize(ImageFile(<<w, h>>), max_side)
       IN  IF r.err # None
           THEN pc' = "raised" /\ err' = r.err /\ out' = out
           ELSE pc' = "returned" /\ err' = err /\ out' = r.size
    /\ UNCHANGED <<args, env_api_key, fs, prompt, files, requests, response,
                   img, dirMade, outputWritten, printed, log, w, h, max_side>>

NextResize ==
    \/ KeepSize
    \/ Downscale

SpecResize == InitResize /\ [][NextResize]_vars

----------------------------------------------------------------------------
(* Properties of the run                                                    *)

\* the stages completed before the i-th one
Earlier(i) == {log[j] : j \in 1..(i - 1)}

\* the image sources of a request, in order
Sources(req) == [i \in DOMAIN req.image |-> req.image[i].src]

\* the photos the command line supplies: the user's, then the reference if any
SuppliedPhotos == IF Truthy(args.sweater) THEN <<"user", "sweater">> ELSE <<"user">>

\* the loads of every supplied photo
AllLoads == IF Truthy(args.sweater) THEN {"load_user", "load_sweater"} ELSE {"load_user"}

\* the loads the engine's branch performs
EngineLoads == IF args.engine = "gpt-image-1" THEN AllLoads ELSE {}

\* the stages that must have completed before a stage starts; loads is the
\* set of load stages the write of the output file waits for
StagesBefore(stage, loads) ==
    CASE stage = "load_sweater" -> {"load_user"}
      [] stage = "remote_call" -> EngineLoads
      [] stage = "payload" -> {"remote_call"}
      [] stage = "url_fallback" -> {"remote_call"}
      [] stage = "decode" -> {"remote_call", "payload"}
      [] stage = "makedirs" -> {"remote_call", "payload", "decode"}
      [] stage = "save" -> {"remote_call", "payload", "decode", "makedirs"} \cup loads
      [] OTHER -> {}

StagesOrdered(loads) ==
    /\ \A i \in DOMAIN log : StagesBefore(log[i], loads) \subseteq Earlier(i)
    /\ \A i, j \in DOMAIN log : log[i] = log[j] => i = j
    /\ outputWritten => (log # <<>> /\ log[Len(log)] = "save" /\ img /\ requests # <<>>)
    /\ err # None => (pc = "error" /\ ~outputWritten /\ "save" \notin Earlier(Len(log) + 1))

\* the positions of a gpt-image-1 run before the remote call, and the error end
BeforeCall == {"parse_args", "show_prompt", "api_key", "generate", "load_user",
               "load_sweater", "error"}

\* C2 as stated: a missing user photo makes every run, whatever the engine,
\* end in an error and write no output file.
C2_MissingInputFatal ==
    fs.input.kind = "missing" => (pc # "done" /\ ~outputWritten)

\* C2 amended: under gpt-image-1, a missing user photo (or a missing supplied
\* reference photo) keeps the run from ever reaching the remote call: it can
\* only end in an error, and no output file is written.
C2_MissingInputFatalWithEdit ==
    (/\ args.engine = "gpt-image-1"
     /\ \/ fs.input.kind = "missing"
        \/ Truthy(args.sweater) /\ fs.sweater.kind = "missing")
    => (pc \in BeforeCall /\ ~outputWritten /\ requests = <<>>)

C2_Witness ==
    /\ pc = "error" /\ err = "FileNotFoundError"
    /\ args.engine = "gpt-image-1" /\ fs.input.kind = "missing"
    /\ Truthy(args.sweater)
    /\ log # <<>> /\ log[Len(log)] = "prompt"

\* C3 as stated: a run that terminates normally has written the output file
\* from a usable base64 image (any other answer of the service is fatal).
C3_NormalEndWroteOutput ==
    pc = "done" => (outputWritten /\ response = "b64_image")

\* C3 amended: a run terminates normally either having written the output
\* file from a base64 image, or - with dall-e-3 only - after an answer without
\* base64 data, having printed the url and written nothing; a service error,
\* an empty result, an undecodable payload and, with gpt-image-1, an answer
\* without base64 data all end the run in an error.
C3_RemoteFailureFatalButUrl ==
    /\ pc = "done" =>
          \/ outputWritten /\ response = "b64_image"
          \/ /\ ~outputWritten /\ args.engine = "dall-e-3" /\ response = "url_only"
             /\ printed # <<>> /\ printed[Len(printed)] = "download_manually"
    /\ (response \in {"api_error", "no_data", "b64_corrupt"} /\ pc \notin {"edit_result", "generate_result", "decode"})
          => pc = "error"

C3_Witness ==
    /\ pc = "error" /\ err = "TypeError"
    /\ args.engine = "gpt-image-1" /\ response = "url_only"
    /\ ~outputWritten

\* C4 as stated: every stage starts only after the stages before it, and the
\* output file is written only after every supplied photo was loaded, the
\* remote call returned and the payload was decoded; after a failure nothing
\* is written.
C4_WriteAfterAllPhotosLoaded == StagesOrdered(AllLoads)

\* C4 amended: the same, with the photos loaded being those of the engine's
\* branch: the user's and the supplied reference under gpt-image-1, none
\* under dall-e-3.
C4_WriteAfterEngineLoads == StagesOrdered(EngineLoads)

C4_Witness ==
    /\ pc = "done" /\ outputWritten
    /\ args.engine = "gpt-image-1" /\ Truthy(args.sweater)
    /\ log = <<"parse_args", "show_prompt", "api_key", "prompt", "load_user",
               "load_sweater", "remote_call", "payload", "decode", "makedirs", "save">>

\* C5 as stated: every request sent to the remote service carries the user's
\* photo, then the reference photo when one was supplied, and the prompt.
C5_RequestCarriesPhotos ==
    \A i \in DOMAIN requests :
        /\ Sources(requests[i]) = SuppliedPhotos
        /\ requests[i].prompt = build_home_alone_prompt(args.user_name)

\* C5 amended: a gpt-image-1 request carries the (resized) user's photo, then
\* the (resized) reference photo when one was supplied, and the prompt; a
\* dall-e-3 request carries the prompt and no image.
C5_RequestCarriesPhotosWithEdit ==
    \A i \in DOMAIN requests :
        /\ requests[i].prompt = build_home_alone_prompt(args.user_name)
        /\ requests[i].model = args.engine
        /\ IF args.engine = "gpt-image-1"
           THEN /\ Sources(requests[i]) = SuppliedPhotos
                /\ requests[i].image[1].size =
                      load_and_optionally_resize(fs.input, DefaultMaxSide).size
                /\ Truthy(args.sweater) =>
                      requests[i].image[2].size =
                         load_and_optionally_resize(fs.sweater, DefaultMaxSide).size
           ELSE requests[i].image = <<>>

C5_Witness ==
    /\ Len(requests) = 1
    /\ args.engine = "gpt-image-1" /\ Truthy(args.sweater)
    /\ Len(requests[1].image) = 2
    /\ requests[1].image[1].size = <<1024, 1536>>

\* C8: the remote call is issued at most once in a run, and once the run has
\* failed nothing more happens: no call, no stage, no output.
C8_NoRetries ==
    [][/\ Len(requests') <= 1
       /\ pc = "error" => (pc' = "error" /\ requests' = requests /\ log' = log
                           /\ outputWritten' = outputWritten)]_vars

C8_Witness ==
    /\ pc = "error" /\ err = "APIError"
    /\ Len(requests) = 1 /\ response = "api_error"

----------------------------------------------------------------------------
(* Properties of load_and_optionally_resize                                 *)

\* C9: the returned image's longest side is at most max_side, and an image
\* whose longest side is already at most max_side is returned with its own
\* size, without a resize.
C9_LongestSideBounded ==
    pc = "returned" =>
        /\ Max(out[1], out[2]) <= max_side
        /\ Max(w, h) <= max_side => (out = <<w, h>> /\ passed = <<>>)

C9_Witness ==
    /\ pc = "returned" /\ passed # <<>>
    /\ Max(w, h) > max_side /\ Max(out[1], out[2]) = max_side

\* C10: both dimensions handed to img.resize are at least 1.
C10_ResizeArgNotDegenerate ==
    passed # <<>> => (passed[1] >= 1 /\ passed[2] >= 1)

====
